---- MODULE Spec2Model ----
(***************************************************************************)
(* Portfolio site scripts: the rate-limiting wrappers (debounce, throttle) *)
(* and the two navigation controllers (the modular one under               *)
(* _site/assets/js/modules and the older one under assets/js).             *)
(*                                                                         *)
(* SpecDebounce and SpecThrottle drive one debounced, one throttled        *)
(* wrapper against a discrete millisecond clock.  A timer never runs       *)
(* before it is due and may run late (the event loop gives no upper        *)
(* bound).  SpecThrottleFair adds what the event loop does guarantee: a     *)
(* timer that is due runs, and time passes.                                *)
(*                                                                         *)
(* Spec (menu events), SpecScroll (scroll events) and SpecPage (both)      *)
(* drive both navigation controllers with the same events, each on its     *)
(* own page; there time is abstracted: a pending timer runs at some later  *)
(* step.  SpecStartup runs the scripts of both pages from the moment       *)
(* before their modules are evaluated.                                     *)
(* An uncaught exception ends the handler that raised it and leaves what   *)
(* the handler had already written.                                        *)
(***************************************************************************)
EXTENDS Integers, Sequences, FiniteSets

\* ------------------------------------------------------------ bounds
MaxTime == 6
MaxCalls == 3
Wait == 2
Limit == 2
Args == {1, 2}

\* ------------------------------------------------------------ state
VARIABLES
    now,        \* the clock, in ms
    timers,     \* the pending setTimeout callbacks
    nextId,     \* the id the next setTimeout returns
    timeout,    \* debounce: the closure's `timeout` (0: undefined)
    inThrottle, \* throttle: the closure's `inThrottle` (undefined is falsy)
    dh,         \* debounce: what an observer of func has seen
    th,         \* throttle: what an observer of func has seen
    present,    \* which of .navbar, .nav-toggle, .nav-links the page holds
    n,          \* modular controller: its fields and the classes of its page
    o,          \* older controller: the classes of its page
    listeners,  \* modular page: the registered event listeners
    wr,         \* the controllers' scroll throttles and resize debounce
    win,        \* window: pageYOffset and innerWidth
    last,       \* the last event dispatched and the menu state before it
    mon,        \* observer: destroy calls, toggle run, scroll sequence,
                \* the side of the threshold of the last handled scroll
    app,        \* the application: its startup, its flag, its global handlers
    anim        \* the animations controller and what the page shows of it

rateVars == <<now, timers, nextId, timeout, inThrottle, dh, th>>
navVars == <<present, n, o, listeners, wr, win, last, mon>>
vars == <<now, timers, nextId, timeout, inThrottle, dh, th,
          present, n, o, listeners, wr, win, last, mon, app, anim>>

\* ------------------------------------------------------------ timers
\* setTimeout(cb, delay): a pending callback with a fresh id.
SetTimeout(pending, id, kind, delay, a) ==
    pending \cup {[id |-> id, kind |-> kind, due |-> now + delay, args |-> a]}

\* clearTimeout(id): the pending callback with that id, if any, is dropped.
ClearTimeout(pending, id) == {t \in pending : t.id # id}

Due(t) == t.due <= now

\* ------------------------------------------------------------ debounce
\* A wrapper call that forgets to cancel the previous schedule.
DebounceScheduleNoClear(pending, id, a) ==
    SetTimeout(pending, id, "later", Wait, a)

\* A wrapper call that schedules `later` without the wait.
DebounceScheduleNoWait(pending, id, a) ==
    SetTimeout(ClearTimeout(pending, timeout), id, "later", 0, a)

\* executedFunction: clearTimeout(timeout); timeout = setTimeout(later, wait)
DebounceSchedule(pending, id, a) ==
    SetTimeout(ClearTimeout(pending, timeout), id, "later", Wait, a)

\* A call of the debounced wrapper with argument a.
DebounceCall(a) ==
    /\ dh.calls < MaxCalls
    /\ timers' = DebounceSchedule(timers, nextId, a)
    /\ timeout' = nextId
    /\ nextId' = nextId + 1
    /\ dh' = [dh EXCEPT !.calls = @ + 1,
                        !.lastCall = now,
                        !.prevArg = dh.lastArg,
                        !.lastArg = a,
                        !.allRapid = @ /\ (dh.calls = 0 \/ now - dh.lastCall < Wait)]
    /\ UNCHANGED <<now, inThrottle, th, navVars, app, anim>>

\* later: clearTimeout(timeout); func(...args)
DebounceLater(t) ==
    /\ t.kind = "later"
    /\ Due(t)
    /\ timers' = ClearTimeout(timers \ {t}, timeout)
    /\ dh' = [dh EXCEPT !.fires = @ + 1,
                        !.firedArg = t.args]
    /\ UNCHANGED <<now, nextId, timeout, inThrottle, th, navVars, app, anim>>

\* ------------------------------------------------------------ throttle
\* What an observer of func notes of a wrapper call made in the current state.
ThrottleSeen(raises) ==
    [th EXCEPT !.calls = @ + 1,
               !.firstCall = IF th.calls = 0 THEN now ELSE @,
               !.lastCall = now,
               !.invoked = IF ~inThrottle THEN @ + 1 ELSE @,
               !.lastIdle = ~inThrottle,
               !.lastRan = ~inThrottle,
               !.lastRaised = ~inThrottle /\ raises,
               !.raised = @ \/ (~inThrottle /\ raises)]

\* A wrapper that starts the cooldown timer and forgets `inThrottle = true`.
ThrottleCallNoFlag(raises) ==
    /\ th.calls < MaxCalls
    /\ IF ~inThrottle /\ ~raises
       THEN /\ timers' = SetTimeout(timers, nextId, "cooldown", Limit, 0)
            /\ nextId' = nextId + 1
            /\ UNCHANGED inThrottle
       ELSE UNCHANGED <<inThrottle, timers, nextId>>
    /\ th' = ThrottleSeen(raises)
    /\ UNCHANGED <<now, timeout, dh, navVars, app, anim>>

\* A wrapper that enters the cooldown before it calls func.
ThrottleCallFlagFirst(raises) ==
    /\ th.calls < MaxCalls
    /\ IF ~inThrottle
       THEN /\ inThrottle' = TRUE
            /\ timers' = SetTimeout(timers, nextId, "cooldown", Limit, 0)
            /\ nextId' = nextId + 1
       ELSE UNCHANGED <<inThrottle, timers, nextId>>
    /\ th' = ThrottleSeen(raises)
    /\ UNCHANGED <<now, timeout, dh, navVars, app, anim>>

\* A call of the throttled wrapper; raises: func raises in this invocation.
\*   if (!inThrottle) { func.apply(context, args); inThrottle = true;
\*                      setTimeout(() => inThrottle = false, limit); }
ThrottleCall(raises) ==
    /\ th.calls < MaxCalls
    /\ IF ~inThrottle
       THEN IF raises
            THEN \* the exception leaves the wrapper before the flag is set
                 UNCHANGED <<inThrottle, timers, nextId>>
            ELSE /\ inThrottle' = TRUE
                 /\ timers' = SetTimeout(timers, nextId, "cooldown", Limit, 0)
                 /\ nextId' = nextId + 1
       ELSE UNCHANGED <<inThrottle, timers, nextId>>
    /\ th' = ThrottleSeen(raises)
    /\ UNCHANGED <<now, timeout, dh, navVars, app, anim>>

\* A cooldown callback that runs func for a call the cooldown swallowed.
ThrottleResetTrailing(t) ==
    /\ t.kind = "cooldown"
    /\ Due(t)
    /\ timers' = timers \ {t}
    /\ inThrottle' = FALSE
    /\ th' = [th EXCEPT !.invoked = IF th.lastRan THEN @ ELSE @ + 1]
    /\ UNCHANGED <<now, nextId, timeout, dh, navVars, app, anim>>

\* A cooldown callback that leaves the flag set.
ThrottleResetKeepsFlag(t) ==
    /\ t.kind = "cooldown"
    /\ Due(t)
    /\ timers' = timers \ {t}
    /\ inThrottle' = TRUE
    /\ UNCHANGED <<now, nextId, timeout, dh, th, navVars, app, anim>>

\* () => inThrottle = false
ThrottleReset(t) ==
    /\ t.kind = "cooldown"
    /\ Due(t)
    /\ timers' = timers \ {t}
    /\ inThrottle' = FALSE
    /\ UNCHANGED <<now, nextId, timeout, dh, th, navVars, app, anim>>

\* One millisecond passes; the clock runs on until every timer set within
\* the horizon is due.
Tick ==
    /\ now < MaxTime \/ \E t \in timers : ~Due(t)
    /\ now' = now + 1
    /\ UNCHANGED <<timers, nextId, timeout, inThrottle, dh, th, navVars, app, anim>>

\* ================================================================ navigation
\* The page: .nav-toggle and .nav-links, where present, lie inside .navbar
\* where that is present; the navigation links lie inside .nav-links.
Elements == {"navbar", "toggle", "links"}
Hrefs == {"#", "#found", "#missing"}
\* The ids a section of the page carries: DOM.get("#found") finds an element.
SectionIds == {"#found"}
Offsets == {0, 50, 80, 100, 120, 150}
Widths == {600, 768, 1024}
ClickTargets == {"outside", "navbar"}

\* modules/navigation.js handleScroll: const scrollThreshold = 100
ScrollThreshold == 100
\* navigation.js (older) handleScroll: if (scrollY > 100)
OldScrollThreshold == 100
\* main.js (older) handleResize: window.innerWidth > 768
OldTabletWidth == 768
\* constants.js: the keys of LAYOUT; BREAKPOINTS is an export of its own
LayoutKeys == {"CONTAINER", "SPACING", "BORDER_RADIUS", "SHADOWS"}
BREAKPOINTS ==
    [MOBILE |-> [num |-> 480, unit |-> "px"], TABLET |-> [num |-> 768, unit |-> "px"],
     DESKTOP |-> [num |-> 1024, unit |-> "px"], WIDE |-> [num |-> 1280, unit |-> "px"]]
\* parseInt('768px'): the leading digits
ParseInt(v) == v.num

Has(e) == e \in present
\* querySelector: the element, or null
El(e) == IF Has(e) THEN e ELSE "null"

\* How a handler ends: the state it leaves and whether it raised.
Ok(s) == [s |-> s, raised |-> FALSE]
Raise(s) == [s |-> s, raised |-> TRUE]

\* element.contains(event.target)
InsideNav(target) == Has("navbar") /\ target \in {"navbar", "toggle", "link"}
OnToggle(target) == Has("toggle") /\ target = "toggle"

\* ---------------------------------------------------------- listeners
\* A callback is a function object: the method itself (wrap "none"), or a new
\* function made from it by bind, throttle(bind), debounce(bind) or an arrow.
Cb(fn, wrap) == [fn |-> fn, wrap |-> wrap]
Listener(target, type, cb) == [target |-> target, type |-> type, cb |-> cb]

\* DOM.on: try { element.addEventListener(...) } catch { console.error }
DomOn(ls, target, type, cb) ==
    IF target = "null" THEN ls ELSE ls \cup {Listener(target, type, cb)}

\* DOM.off: try { element.removeEventListener(...) } catch { console.error }
\* removeEventListener drops the listener with this very callback object.
DomOff(ls, target, type, cb) ==
    IF target = "null" THEN ls ELSE ls \ {Listener(target, type, cb)}

Registered(target, type, fn) ==
    \E l \in listeners : l.target = target /\ l.type = type /\ l.cb.fn = fn

\* A bindEvents that a failed registration leaves at once.
BindEventsAborting(ls) ==
    LET l1 == DomOn(ls, "window", "scroll", Cb("handleScroll", "throttle"))
        l2 == DomOn(l1, El("toggle"), "click", Cb("toggleMobileMenu", "bind"))
        l3 == DomOn(l2, "window", "resize", Cb("handleResize", "debounce"))
    IN  IF ~Has("toggle") THEN l1
        ELSE DomOn(l3, "document", "click", Cb("handleOutsideClick", "bind"))

\* Navigation.bindEvents
BindEvents(ls) ==
    LET l1 == DomOn(ls, "window", "scroll", Cb("handleScroll", "throttle"))
        l2 == DomOn(l1, El("toggle"), "click", Cb("toggleMobileMenu", "bind"))
        l3 == DomOn(l2, "window", "resize", Cb("handleResize", "debounce"))
    IN  DomOn(l3, "document", "click", Cb("handleOutsideClick", "bind"))

\* Navigation.setupSmoothScrolling: DOM.getAll(sel, this.navLinks) raises on a
\* null parent; otherwise every link gets a click listener.
SetupSmoothScrolling(ls) ==
    IF ~Has("links") THEN Raise(ls)
    ELSE Ok(ls \cup {Listener(h, "click", Cb("scrollToSection", "arrow")) : h \in Hrefs})

\* new Navigation(): cacheElements, bindEvents, setupSmoothScrolling
Constructed == SetupSmoothScrolling(BindEvents({}))

\* ------------------------------------------------- modular controller
\* addScrollClass
AddScrollClass(s) ==
    IF ~Has("navbar") THEN Raise(s)
    ELSE Ok([s EXCEPT !.navbarScrolled = TRUE, !.isScrolled = TRUE])

\* A removeScrollClass that leaves isScrolled set.
RemoveScrollClassKeepsFlag(s) ==
    IF ~Has("navbar") THEN Raise(s)
    ELSE Ok([s EXCEPT !.navbarScrolled = FALSE])

\* removeScrollClass
RemoveScrollClass(s) ==
    IF ~Has("navbar") THEN Raise(s)
    ELSE Ok([s EXCEPT !.navbarScrolled = FALSE, !.isScrolled = FALSE])

\* A handleScroll that never takes the marker off again.
HandleScrollNoRemove(s, y) ==
    IF y > ScrollThreshold /\ ~s.isScrolled THEN AddScrollClass(s) ELSE Ok(s)

\* handleScroll
HandleScroll(s, y) ==
    IF y > ScrollThreshold /\ ~s.isScrolled THEN AddScrollClass(s)
    ELSE IF y <= ScrollThreshold /\ s.isScrolled THEN RemoveScrollClass(s)
    ELSE Ok(s)

\* openMobileMenu
OpenMobileMenu(s) ==
    IF ~Has("links") THEN Raise(s)
    ELSE LET s1 == [s EXCEPT !.linksActive = TRUE]
         IN  IF ~Has("toggle") THEN Raise(s1)
             ELSE Ok([s1 EXCEPT !.toggleActive = TRUE, !.overflowHidden = TRUE])

\* A closeMobileMenu that forgets the toggle control's class.
CloseMobileMenuKeepsToggle(s) ==
    IF ~Has("links") THEN Raise(s)
    ELSE Ok([s EXCEPT !.linksActive = FALSE, !.overflowHidden = FALSE])

\* closeMobileMenu
CloseMobileMenu(s) ==
    IF ~Has("links") THEN Raise(s)
    ELSE LET s1 == [s EXCEPT !.linksActive = FALSE]
         IN  IF ~Has("toggle") THEN Raise(s1)
             ELSE Ok([s1 EXCEPT !.toggleActive = FALSE, !.overflowHidden = FALSE])

\* toggleMobileMenu
ToggleMobileMenu(s) ==
    LET s1 == [s EXCEPT !.isMobileMenuOpen = ~@]
    IN  IF s1.isMobileMenuOpen THEN OpenMobileMenu(s1) ELSE CloseMobileMenu(s1)

\* handleResize: LAYOUT.BREAKPOINTS is undefined, and reading .TABLET of it
\* raises before the width is compared.
HandleResize(s, w) ==
    IF "BREAKPOINTS" \notin LayoutKeys THEN Raise(s)
    ELSE IF w > ParseInt(BREAKPOINTS.TABLET) /\ s.isMobileMenuOpen
         THEN CloseMobileMenu(s)
         ELSE Ok(s)

\* A handleOutsideClick that toggles the menu where it should close it.
HandleOutsideClickToggles(s, target) ==
    IF ~Has("navbar") \/ ~Has("toggle") THEN Raise(s)
    ELSE IF ~InsideNav(target) /\ ~OnToggle(target)
         THEN ToggleMobileMenu(s)
         ELSE Ok(s)

\* A handleOutsideClick that lost the negation of isClickInsideNav.
HandleOutsideClickInverted(s, target) ==
    IF ~Has("navbar") \/ ~Has("toggle") THEN Raise(s)
    ELSE IF InsideNav(target) /\ ~OnToggle(target) /\ s.isMobileMenuOpen
         THEN CloseMobileMenu(s)
         ELSE Ok(s)

\* handleOutsideClick
HandleOutsideClick(s, target) ==
    IF ~Has("navbar") \/ ~Has("toggle") THEN Raise(s)
    ELSE IF ~InsideNav(target) /\ ~OnToggle(target) /\ s.isMobileMenuOpen
         THEN CloseMobileMenu(s)
         ELSE Ok(s)

\* scrollToSection
ScrollToSection(s, href) ==
    IF href \in SectionIds
    THEN LET r == IF s.isMobileMenuOpen THEN CloseMobileMenu(s) ELSE Ok(s)
         IN  IF r.raised THEN r ELSE Ok([r.s EXCEPT !.activeLink = href])
    ELSE Ok(s)

\* the click listener of a navigation link
LinkClick(s, href) ==
    IF href # "#" THEN ScrollToSection(s, href) ELSE Ok(s)

\* destroy: the four DOM.off calls name the methods themselves
DestroyListeners(ls) ==
    LET l1 == DomOff(ls, "window", "scroll", Cb("handleScroll", "none"))
        l2 == DomOff(l1, El("toggle"), "click", Cb("toggleMobileMenu", "none"))
        l3 == DomOff(l2, "window", "resize", Cb("handleResize", "none"))
    IN  DomOff(l3, "document", "click", Cb("handleOutsideClick", "none"))

\* A destroy that removes 'navbar-scrolled' without the `if (this.navbar)`.
DestroyStateUnguarded(s) ==
    LET s1 == [s EXCEPT !.isScrolled = FALSE, !.isMobileMenuOpen = FALSE]
    IN  IF ~Has("navbar") THEN Raise(s1)
        ELSE Ok([s1 EXCEPT !.navbarScrolled = FALSE,
                           !.linksActive = IF Has("links") THEN FALSE ELSE @,
                           !.toggleActive = IF Has("toggle") THEN FALSE ELSE @,
                           !.overflowHidden = FALSE])

\* destroy: reset state, remove classes (each behind a null check), lift the
\* body's scroll suppression; no statement of it can raise.
DestroyState(s) ==
    Ok([s EXCEPT !.isScrolled = FALSE, !.isMobileMenuOpen = FALSE,
                 !.navbarScrolled = IF Has("navbar") THEN FALSE ELSE @,
                 !.linksActive = IF Has("links") THEN FALSE ELSE @,
                 !.toggleActive = IF Has("toggle") THEN FALSE ELSE @,
                 !.overflowHidden = FALSE])

\* --------------------------------------------------- older controller
\* addScrolledClass / removeScrolledClass behind handleScroll
OldHandleScroll(s, y) ==
    IF y > OldScrollThreshold
    THEN IF Has("navbar") /\ ~s.navbarScrolled
         THEN [s EXCEPT !.navbarScrolled = TRUE] ELSE s
    ELSE IF Has("navbar") /\ s.navbarScrolled
         THEN [s EXCEPT !.navbarScrolled = FALSE] ELSE s

\* toggleMobileMenu: toggleClass on both elements
OldToggleMobileMenu(s) ==
    IF Has("links") /\ Has("toggle")
    THEN [s EXCEPT !.linksActive = ~@, !.toggleActive = ~@]
    ELSE s

\* closeMobileMenu: removeClass on both elements
OldCloseMobileMenu(s) ==
    IF Has("links") /\ Has("toggle")
    THEN [s EXCEPT !.linksActive = FALSE, !.toggleActive = FALSE]
    ELSE s

\* handleOutsideClick
OldHandleOutsideClick(s, target) ==
    IF ~InsideNav(target) /\ ~OnToggle(target) THEN OldCloseMobileMenu(s) ELSE s

\* isMenuOpen
OldIsMenuOpen(s) == Has("links") /\ s.linksActive

\* PortfolioApp.handleResize (main.js)
OldAppHandleResize(s, w) ==
    IF w > OldTabletWidth /\ OldIsMenuOpen(s) THEN OldCloseMobileMenu(s) ELSE s

\* ------------------------------------------------ application startup
\* The event types bindGlobalEvents registers a handler for.
GlobalEvents == {"visibilitychange", "focus", "blur", "beforeunload", "error",
                 "unhandledrejection"}

\* bindGlobalEvents: DOM.on(target, e, this.handler.bind(this)) for each type;
\* every bind makes a function of its own, so the listener is one more.
BindGlobalEvents(h) == [e \in GlobalEvents |-> h[e] + 1]

\* cleanup: DOM.off(target, e, this.handler) for each type.  The registered
\* callbacks are bound copies; the method itself was never registered, and
\* removeEventListener with it finds nothing to remove.
UnbindGlobalEvents(h, cb) ==
    IF cb.wrap = "none" THEN h
    ELSE [e \in GlobalEvents |-> IF h[e] > 0 THEN h[e] - 1 ELSE 0]

\* What can fail while the application starts, apart from the navigation
\* controller: the animations controller's constructor (AOS.init, `new
\* IntersectionObserver` where the browser has none), and a statement of one
\* of the three steps of PortfolioApp.init.
Faults == {"animations", "setupModules", "bindGlobalEvents",
           "setupPerformanceMonitoring"}
InitSteps == {"setupModules", "bindGlobalEvents", "setupPerformanceMonitoring"}

\* The page's scripts before any of them ran.  propagated: an exception left
\* the script uncaught; logged: a catch block reported one.
\* handlers: per global event type, the listeners of the application that
\* are registered; initRuns: the runs of init's body since the last reload or
\* cleanup; reloadTimers: the pending `setTimeout(() => this.init(), 100)`.
AppBefore(f) ==
    [phase |-> "start", faults |-> f, constructed |-> FALSE,
     isInitialized |-> FALSE, propagated |-> FALSE, logged |-> FALSE,
     oldPhase |-> "start", oldPropagated |-> FALSE, oldLogged |-> FALSE,
     handlers |-> [e \in GlobalEvents |-> 0], initRuns |-> 0,
     reloadTimers |-> 0, calls |-> 0, lastOp |-> "none"]

\* app.js: import { navigation } from './modules/navigation.js'.  The module
\* body is `export const navigation = new Navigation()`: an exception of the
\* constructor ends the evaluation of the module and of every module that
\* imports it.
ImportNavigation(a) ==
    IF Constructed.raised
    THEN [a EXCEPT !.phase = "aborted", !.propagated = TRUE]
    ELSE [a EXCEPT !.phase = "navigation"]

\* app.js: import { animations } from './modules/animations.js'
ImportAnimations(a) ==
    IF "animations" \in a.faults
    THEN [a EXCEPT !.phase = "aborted", !.propagated = TRUE]
    ELSE [a EXCEPT !.phase = "animations"]

\* PortfolioApp.init: if (this.isInitialized) return;
\*   try { the three steps; isInitialized = true }
\*   catch (error) { console.error(...) }
AppInit(a) ==
    IF a.isInitialized THEN a
    ELSE LET a1 == [a EXCEPT !.initRuns = @ + 1,
                             !.handlers = IF a.faults \cap {"setupModules", "bindGlobalEvents"} = {}
                                          THEN BindGlobalEvents(@) ELSE @]
         IN  IF a.faults \cap InitSteps # {}
             THEN [a1 EXCEPT !.logged = TRUE]
             ELSE [a1 EXCEPT !.isInitialized = TRUE]

\* cleanup, the application's own part: the six DOM.off calls, the flag.
AppCleanup(a) ==
    [a EXCEPT !.handlers = UnbindGlobalEvents(@, Cb("handler", "none")),
              !.isInitialized = FALSE,
              !.initRuns = 0]

\* The fields the Navigation constructor gives its object.
NavigationFields == {"navbar", "navToggle", "navLinks", "isScrolled",
                     "isMobileMenuOpen"}

\* getStatus: module.instance.isInitialized || false, per module
ModuleInitialized(name) ==
    IF name = "Navigation" THEN "isInitialized" \in NavigationFields
    ELSE anim.isInitialized

\* initializeApp: window.portfolioApp = new PortfolioApp()
NewPortfolioApp(a) ==
    [AppInit(a) EXCEPT !.phase = "constructed", !.constructed = TRUE]

\* main.js (older) setupApp: try { new Navigation(); new Animations();
\* setupGlobalEvents() } catch (error) { console.error(...) }.  The older
\* Navigation constructor tests every element before it uses it.
OldSetupApp(a) ==
    IF "animations" \in a.faults \/ "bindGlobalEvents" \in a.faults
    THEN [a EXCEPT !.oldPhase = "constructed", !.oldLogged = TRUE]
    ELSE [a EXCEPT !.oldPhase = "constructed"]

\* ------------------------------------------------ animations controller
\* The page holds [data-aos] elements, .skill-category elements, hover cards
\* and .hero-bg-shape elements; aos: the AOS library is loaded.
\* observing: intersection observers of the controller are connected;
\* parallax: parallaxElements is not empty; pending: the deferred callbacks
\* scheduled and not yet run (the fallback's per-element delay timer, a
\* requestAnimationFrame callback); stale: those of them scheduled before the
\* last destroy; styled: an element carries a transition, transform or
\* opacity the controller set; lateStyled: a stale callback set one.
\* animated: an element carries an inline animation (addFloatingAnimation),
\* so that `[style*="animation"]` selects it; playState: its
\* animation-play-state; hidden: document.hidden.
AnimBefore(aos) ==
    [aos |-> aos, isInitialized |-> FALSE, observing |-> FALSE,
     parallax |-> FALSE, inThrottle |-> FALSE, pending |-> {}, stale |-> {},
     styled |-> FALSE, lateStyled |-> FALSE, hidden |-> FALSE,
     animated |-> FALSE, playState |-> "running", destroys |-> 0]

\* new Animations(): initAOS (the fallback sets each element's initial
\* state and observes it), setupParallaxEffects, setupHoverEffects,
\* setupIntersectionObservers, isInitialized = true
NewAnimations(aos) ==
    [AnimBefore(aos) EXCEPT !.isInitialized = TRUE, !.observing = TRUE,
                            !.parallax = TRUE, !.styled = ~aos]

\* Animations.destroy: disconnect the observers, DOM.off(window, 'scroll',
\* this.handleParallax) (the registered callback is throttle(bind(...)), so
\* nothing is removed), reset the fields, removeAnimations on every element.
\* No timer and no animation frame is cancelled.
AnimationsDestroy(a) ==
    [a EXCEPT !.observing = FALSE, !.isInitialized = FALSE,
              !.parallax = FALSE, !.styled = FALSE,
              !.animated = FALSE, !.playState = "running",
              !.stale = a.stale \cup a.pending, !.pending = {},
              !.destroys = @ + 1]

\* pauseAnimations: animationPlayState = 'paused' on every element that
\* `[style*="animation"]` selects
PauseAnimations(a) ==
    IF a.animated THEN [a EXCEPT !.playState = "paused"] ELSE a

\* resumeAnimations: animationPlayState = 'running' on the same elements
ResumeAnimations(a) ==
    IF a.animated THEN [a EXCEPT !.playState = "running"] ELSE a

\* The animations controller after the startup on the page.
AnimStarted(aos) ==
    IF Constructed.raised THEN AnimBefore(aos) ELSE NewAnimations(aos)

\* Both applications after an undisturbed startup on the page.
Started ==
    LET a1 == ImportNavigation(OldSetupApp(AppBefore({})))
    IN  IF a1.propagated THEN a1 ELSE NewPortfolioApp(ImportAnimations(a1))

\* ------------------------------------------------------------ observer
MaxDestroys == 2
\* The offsets of the scroll test and the marker after each of its steps.
TestSeq == <<0, 50, 120, 80, 150>>
TestMarks == <<FALSE, FALSE, TRUE, FALSE, TRUE>>

\* The markers seen along the longest prefix of TestSeq the handled scroll
\* events currently end with.
Track(marks, y, marker) ==
    IF Len(marks) < Len(TestSeq) /\ y = TestSeq[Len(marks) + 1]
    THEN Append(marks, marker)
    ELSE IF y = TestSeq[1] THEN <<marker>> ELSE <<>>

\* The side of the 100 px threshold an offset lies on.
Side(y) == IF y > 100 THEN "above" ELSE "below"

Event(evt, arg, nRan, oRan, raised) ==
    [evt |-> evt, arg |-> arg, nOpen |-> n.linksActive, oOpen |-> o.linksActive,
     nRan |-> nRan, oRan |-> oRan, raised |-> raised]

\* The toggle activations made so far when nothing else has happened since
\* the controllers were constructed; -1 once anything else has.
ToggleRun(isToggle) ==
    IF isToggle /\ mon.toggleRun \in {0, 1} THEN mon.toggleRun + 1 ELSE -1

\* ------------------------------------------------------------- events
\* A scroll event at offset y reaches both pages' throttled handlers.
ScrollEvent(y) ==
    LET nRan == Registered("window", "scroll", "handleScroll") /\ ~wr.inThrottle
        oRan == ~wr.oldInThrottle
        r == IF nRan THEN HandleScroll(n, y) ELSE Ok(n)
        o1 == IF oRan THEN OldHandleScroll(o, y) ELSE o
    IN  /\ win' = [win EXCEPT !.y = y]
        /\ n' = r.s
        /\ o' = o1
        \* throttle: the flag is set only when func returned
        /\ wr' = [wr EXCEPT !.inThrottle = @ \/ (nRan /\ ~r.raised),
                            !.oldInThrottle = TRUE]
        /\ last' = Event("scroll", "", nRan, oRan, r.raised)
        /\ mon' = [mon EXCEPT
                     !.toggleRun = ToggleRun(FALSE),
                     !.nseq = IF nRan THEN Track(@, y, r.s.navbarScrolled) ELSE @,
                     !.oseq = IF oRan THEN Track(@, y, o1.navbarScrolled) ELSE @,
                     !.nSide = IF nRan THEN Side(y) ELSE @,
                     !.oSide = IF oRan THEN Side(y) ELSE @]
        /\ UNCHANGED <<present, listeners, rateVars, app, anim>>

\* The modular page's scroll cooldown (16 ms) ends.
CooldownExpire ==
    /\ wr.inThrottle
    /\ wr' = [wr EXCEPT !.inThrottle = FALSE]
    /\ UNCHANGED <<present, n, o, listeners, win, last, mon, rateVars, app, anim>>

\* The older page's scroll cooldown (16 ms) ends.
OldCooldownExpire ==
    /\ wr.oldInThrottle
    /\ wr' = [wr EXCEPT !.oldInThrottle = FALSE]
    /\ UNCHANGED <<present, n, o, listeners, win, last, mon, rateVars, app, anim>>

\* A click on the toggle button: its own listener, then the document's.
ToggleClick ==
    /\ Has("toggle")
    /\ LET nTog == Registered("toggle", "click", "toggleMobileMenu")
           nDoc == Registered("document", "click", "handleOutsideClick")
           r1 == IF nTog THEN ToggleMobileMenu(n) ELSE Ok(n)
           r2 == IF nDoc THEN HandleOutsideClick(r1.s, "toggle") ELSE Ok(r1.s)
       IN  /\ n' = r2.s
           /\ o' = OldHandleOutsideClick(OldToggleMobileMenu(o), "toggle")
           /\ last' = Event("toggle", "", nTog, TRUE, r1.raised \/ r2.raised)
    /\ mon' = [mon EXCEPT !.toggleRun = ToggleRun(TRUE)]
    /\ UNCHANGED <<present, listeners, wr, win, rateVars, app, anim>>

\* A click elsewhere: outside the navbar, or inside it but on neither the
\* toggle nor a link.
Click(target) ==
    /\ target = "navbar" => Has("navbar")
    /\ LET nDoc == Registered("document", "click", "handleOutsideClick")
           r == IF nDoc THEN HandleOutsideClick(n, target) ELSE Ok(n)
       IN  /\ n' = r.s
           /\ last' = Event("click", target, nDoc, TRUE, r.raised)
    /\ o' = OldHandleOutsideClick(o, target)
    /\ mon' = [mon EXCEPT !.toggleRun = ToggleRun(FALSE)]
    /\ UNCHANGED <<present, listeners, wr, win, rateVars, app, anim>>

\* A click on the navigation link with this href: its own listeners, then
\* the document's.
LinkActivate(href) ==
    /\ Has("links")
    /\ LET nLnk == Registered(href, "click", "scrollToSection")
           nDoc == Registered("document", "click", "handleOutsideClick")
           r1 == IF nLnk THEN LinkClick(n, href) ELSE Ok(n)
           r2 == IF nDoc THEN HandleOutsideClick(r1.s, "link") ELSE Ok(r1.s)
       IN  /\ n' = r2.s
           /\ last' = Event("link", href, nLnk, TRUE, r1.raised \/ r2.raised)
    /\ o' = OldHandleOutsideClick(OldCloseMobileMenu(o), "link")
    /\ mon' = [mon EXCEPT !.toggleRun = ToggleRun(FALSE)]
    /\ UNCHANGED <<present, listeners, wr, win, rateVars, app, anim>>

\* The window is resized to width w: the modular page debounces its handler
\* (250 ms), the older application handles the event at once.
Resize(w) ==
    /\ win' = [win EXCEPT !.w = w]
    /\ wr' = [wr EXCEPT !.resizeTimeout =
                @ \/ Registered("window", "resize", "handleResize")]
    /\ o' = OldAppHandleResize(o, w)
    /\ last' = Event("resize", "", FALSE, TRUE, FALSE)
    /\ mon' = [mon EXCEPT !.toggleRun = ToggleRun(FALSE)]
    /\ UNCHANGED <<present, n, listeners, rateVars, app, anim>>

\* The debounced resize handler of the modular page runs.
ResizeLater ==
    /\ wr.resizeTimeout
    /\ wr' = [wr EXCEPT !.resizeTimeout = FALSE]
    /\ LET r == HandleResize(n, win.w)
       IN  /\ n' = r.s
           /\ last' = Event("resizeLater", "", TRUE, FALSE, r.raised)
    /\ mon' = [mon EXCEPT !.toggleRun = ToggleRun(FALSE)]
    /\ UNCHANGED <<present, o, listeners, win, rateVars, app, anim>>

\* navigation.destroy() on the modular controller; the module exports
\* `navigation` only when the constructor returned.
NavDestroy ==
    /\ ~Constructed.raised
    /\ mon.destroys < MaxDestroys
    /\ listeners' = DestroyListeners(listeners)
    /\ LET r == DestroyState(n)
       IN  /\ n' = r.s
           /\ last' = Event("destroy", "", TRUE, FALSE, r.raised)
    /\ mon' = [mon EXCEPT !.destroys = @ + 1, !.toggleRun = ToggleRun(FALSE)]
    /\ UNCHANGED <<present, o, wr, win, rateVars, app, anim>>

\* The browser evaluates modules/navigation.js.
LoadNavigation ==
    /\ app.phase = "start"
    /\ app' = ImportNavigation(app)
    /\ listeners' = Constructed.s
    /\ last' = Event("construct", "", TRUE, FALSE, Constructed.raised)
    /\ UNCHANGED <<present, n, o, wr, win, mon, rateVars, anim>>

\* The browser evaluates modules/animations.js.
LoadAnimations ==
    /\ app.phase = "navigation"
    /\ app' = ImportAnimations(app)
    /\ anim' = IF "animations" \in app.faults THEN anim ELSE NewAnimations(anim.aos)
    /\ UNCHANGED <<navVars, rateVars>>

\* The browser evaluates app.js: initializeApp constructs the application.
ConstructApp ==
    /\ app.phase = "animations"
    /\ app' = NewPortfolioApp(app)
    /\ UNCHANGED <<navVars, rateVars, anim>>

\* The older page's main.js constructs its application.
OldConstructApp ==
    /\ app.oldPhase = "start"
    /\ app' = OldSetupApp(app)
    /\ UNCHANGED <<navVars, rateVars, anim>>

\* ------------------------------------------------- application lifecycle
MaxAppCalls == 3

\* cleanup: every module's destroy inside its own try, then the application's
\* own listeners and flag.
Cleanup(op) ==
    /\ app.constructed
    /\ app.calls < MaxAppCalls
    /\ LET r == DestroyState(n)
       IN  /\ n' = r.s
           /\ last' = Event("destroy", "", TRUE, FALSE, r.raised)
    /\ listeners' = DestroyListeners(listeners)
    /\ mon' = [mon EXCEPT !.destroys = @ + 1, !.toggleRun = ToggleRun(FALSE)]
    /\ anim' = AnimationsDestroy(anim)
    /\ app' = [AppCleanup(app) EXCEPT
                 !.calls = @ + 1, !.lastOp = op,
                 !.reloadTimers = IF op = "reload" THEN @ + 1 ELSE @]
    /\ UNCHANGED <<present, o, wr, win, rateVars>>

\* portfolioApp.cleanup(), also behind destroy() and the beforeunload handler
AppCleanupCall == Cleanup("cleanup")

\* portfolioApp.reload(): cleanup, isInitialized = false,
\* setTimeout(() => this.init(), 100)
AppReload == Cleanup("reload")

\* The callback of a reload's timer runs: this.init()
AppReloadLater ==
    /\ app.reloadTimers > 0
    /\ app' = [AppInit(app) EXCEPT !.reloadTimers = @ - 1, !.lastOp = "reloadLater"]
    /\ UNCHANGED <<navVars, rateVars, anim>>

\* portfolioApp.init() called from outside
AppInitCall ==
    /\ app.constructed
    /\ app.calls < MaxAppCalls
    /\ app' = [AppInit(app) EXCEPT !.calls = @ + 1, !.lastOp = "init"]
    /\ UNCHANGED <<navVars, rateVars, anim>>

\* visibilitychange: document.hidden becomes h; handleVisibilityChange
VisibilityChange(h) ==
    /\ anim.hidden # h
    /\ LET a1 == [anim EXCEPT !.hidden = h]
       IN  anim' = IF app.handlers["visibilitychange"] = 0 THEN a1
                   ELSE IF h THEN PauseAnimations(a1) ELSE ResumeAnimations(a1)
    /\ UNCHANGED <<navVars, rateVars, app>>

\* focus on the window: handleWindowFocus
WindowFocus ==
    /\ anim' = IF app.handlers["focus"] = 0 THEN anim ELSE ResumeAnimations(anim)
    /\ UNCHANGED <<navVars, rateVars, app>>

\* blur on the window: handleWindowBlur
WindowBlur ==
    /\ anim' = IF app.handlers["blur"] = 0 THEN anim ELSE PauseAnimations(anim)
    /\ UNCHANGED <<navVars, rateVars, app>>

\* animations.addFloatingAnimation(element) on a .hero-bg-shape element that
\* has no inline animation yet: element.style.animation = `float ...`
AddFloatingAnimation ==
    /\ ~anim.animated
    /\ anim' = [anim EXCEPT !.animated = TRUE, !.playState = "running"]
    /\ UNCHANGED <<navVars, rateVars, app>>

\* ------------------------------------------------- animation callbacks
\* An observed [data-aos] element comes into view (fallback only): the
\* observer's callback sets the element's delay timer.
Intersect ==
    /\ anim.observing /\ ~anim.aos
    /\ anim' = [anim EXCEPT !.pending = @ \cup {"delay"}]
    /\ UNCHANGED <<navVars, rateVars, app>>

\* A .skill-category element comes into view: animateSkillCategory sets its
\* initial state and asks for an animation frame.
IntersectSkill ==
    /\ anim.observing
    /\ anim' = [anim EXCEPT !.styled = TRUE, !.pending = @ \cup {"raf"}]
    /\ UNCHANGED <<navVars, rateVars, app>>

\* mouseenter / mouseleave on a card, tag or button: the listener, which no
\* destroy removes, asks for an animation frame.
Hover ==
    /\ anim.isInitialized \/ anim.destroys > 0
    /\ anim' = [anim EXCEPT !.pending = @ \cup {"raf"}]
    /\ UNCHANGED <<navVars, rateVars, app>>

\* A deferred callback scheduled since the last destroy (or with none) runs:
\* the delay timer's animateElement, or the animation frame's assignment.
DeferredRun(k) ==
    /\ k \in anim.pending
    /\ anim' = [anim EXCEPT !.pending = @ \ {k}, !.styled = TRUE]
    /\ UNCHANGED <<navVars, rateVars, app>>

\* A deferred callback scheduled before the last destroy runs: nothing
\* cancelled it, and it assigns the element's style as it would have.
StaleRun(k) ==
    /\ k \in anim.stale
    /\ anim' = [anim EXCEPT !.stale = @ \ {k}, !.styled = TRUE,
                            !.lateStyled = TRUE]
    /\ UNCHANGED <<navVars, rateVars, app>>

\* A scroll event reaches the throttled handleParallax, still registered
\* after destroy: it sets a transform on each of parallaxElements.
ParallaxScroll ==
    /\ anim.isInitialized \/ anim.destroys > 0
    /\ anim' = IF anim.inThrottle THEN anim
               ELSE [anim EXCEPT !.inThrottle = TRUE,
                                 !.styled = @ \/ anim.parallax]
    /\ UNCHANGED <<navVars, rateVars, app>>

\* The parallax handler's cooldown (16 ms) ends.
ParallaxCooldownExpire ==
    /\ anim.inThrottle
    /\ anim' = [anim EXCEPT !.inThrottle = FALSE]
    /\ UNCHANGED <<navVars, rateVars, app>>

\* animations.destroy()
AnimDestroy ==
    /\ anim.isInitialized \/ anim.destroys > 0
    /\ anim.destroys < MaxDestroys
    /\ anim' = AnimationsDestroy(anim)
    /\ UNCHANGED <<navVars, rateVars, app>>

\* The page before its scripts ran.
PageBefore ==
    /\ present \in SUBSET Elements
    /\ n = [isScrolled |-> FALSE, isMobileMenuOpen |-> FALSE,
            navbarScrolled |-> FALSE, linksActive |-> FALSE,
            toggleActive |-> FALSE, overflowHidden |-> FALSE,
            activeLink |-> "none"]
    /\ o = [navbarScrolled |-> FALSE, linksActive |-> FALSE,
            toggleActive |-> FALSE, overflowHidden |-> FALSE]
    /\ listeners = {}
    /\ wr = [inThrottle |-> FALSE, oldInThrottle |-> FALSE, resizeTimeout |-> FALSE]
    /\ win = [y |-> 0, w |-> 600]
    /\ last = [evt |-> "init", arg |-> "", nOpen |-> FALSE, oOpen |-> FALSE,
               nRan |-> FALSE, oRan |-> FALSE, raised |-> FALSE]
    /\ mon = [destroys |-> 0, toggleRun |-> 0, nseq |-> <<>>, oseq |-> <<>>,
              nSide |-> "none", oSide |-> "none"]
    /\ app \in {AppBefore(f) : f \in SUBSET Faults}
    /\ anim = AnimBefore(FALSE)

NavStart ==
    /\ present \in SUBSET Elements
    /\ n = [isScrolled |-> FALSE, isMobileMenuOpen |-> FALSE,
            navbarScrolled |-> FALSE, linksActive |-> FALSE,
            toggleActive |-> FALSE, overflowHidden |-> FALSE,
            activeLink |-> "none"]
    /\ o = [navbarScrolled |-> FALSE, linksActive |-> FALSE,
            toggleActive |-> FALSE, overflowHidden |-> FALSE]
    /\ listeners = Constructed.s
    /\ wr = [inThrottle |-> FALSE, oldInThrottle |-> FALSE, resizeTimeout |-> FALSE]
    /\ win = [y |-> 0, w |-> 600]
    /\ last = [evt |-> "init", arg |-> "", nOpen |-> FALSE, oOpen |-> FALSE,
               nRan |-> FALSE, oRan |-> FALSE, raised |-> Constructed.raised]
    /\ mon = [destroys |-> 0, toggleRun |-> 0, nseq |-> <<>>, oseq |-> <<>>,
              nSide |-> "none", oSide |-> "none"]

\* The navigation variables while only the wrappers are driven.
NavIdle ==
    /\ present = Elements
    /\ n = [isScrolled |-> FALSE, isMobileMenuOpen |-> FALSE,
            navbarScrolled |-> FALSE, linksActive |-> FALSE,
            toggleActive |-> FALSE, overflowHidden |-> FALSE,
            activeLink |-> "none"]
    /\ o = [navbarScrolled |-> FALSE, linksActive |-> FALSE,
            toggleActive |-> FALSE, overflowHidden |-> FALSE]
    /\ listeners = {}
    /\ wr = [inThrottle |-> FALSE, oldInThrottle |-> FALSE, resizeTimeout |-> FALSE]
    /\ win = [y |-> 0, w |-> 600]
    /\ last = [evt |-> "init", arg |-> "", nOpen |-> FALSE, oOpen |-> FALSE,
               nRan |-> FALSE, oRan |-> FALSE, raised |-> FALSE]
    /\ mon = [destroys |-> 0, toggleRun |-> 0, nseq |-> <<>>, oseq |-> <<>>,
              nSide |-> "none", oSide |-> "none"]

RateStart ==
    /\ now = 0
    /\ timers = {}
    /\ nextId = 1
    /\ timeout = 0
    /\ inThrottle = FALSE
    /\ dh = [calls |-> 0, fires |-> 0, lastCall |-> 0, lastArg |-> 0,
             prevArg |-> 0, firedArg |-> 0, allRapid |-> TRUE]
    /\ th = [calls |-> 0, invoked |-> 0, firstCall |-> 0, lastCall |-> 0,
             lastIdle |-> FALSE, lastRan |-> FALSE, lastRaised |-> FALSE,
             raised |-> FALSE]

RateInit == RateStart /\ NavIdle /\ app = Started /\ anim = AnimStarted(FALSE)

\* The debounced wrapper alone against the clock.
DebounceNext ==
    \/ \E a \in Args : DebounceCall(a)
    \/ \E t \in timers : DebounceLater(t)
    \/ Tick

SpecDebounce == RateInit /\ [][DebounceNext]_vars

\* The throttled wrapper alone against the clock.
ThrottleNext ==
    \/ \E r \in BOOLEAN : ThrottleCall(r)
    \/ \E t \in timers : ThrottleReset(t)
    \/ Tick

SpecThrottle == RateInit /\ [][ThrottleNext]_vars

\* The event loop runs a timer that is due, and time passes.
SpecThrottleFair ==
    /\ RateInit
    /\ [][ThrottleNext]_vars
    /\ WF_vars(\E t \in timers : ThrottleReset(t))
    /\ WF_vars(Tick)

Init == RateStart /\ NavStart /\ app = Started /\ anim = AnimStarted(FALSE)

\* Both navigation controllers' menus, driven by the same events.
Next ==
    \/ ToggleClick
    \/ \E t \in ClickTargets : Click(t)
    \/ \E h \in Hrefs : LinkActivate(h)
    \/ \E w \in Widths : Resize(w)
    \/ ResizeLater
    \/ NavDestroy

Spec == Init /\ [][Next]_vars

\* Both navigation controllers' scroll markers, driven by the same events.
ScrollNext ==
    \/ \E y \in Offsets : ScrollEvent(y)
    \/ CooldownExpire
    \/ OldCooldownExpire
    \/ NavDestroy

SpecScroll == Init /\ [][ScrollNext]_vars

\* Both controllers' menus under click events alone.
ClickNext ==
    \/ ToggleClick
    \/ \E t \in ClickTargets : Click(t)
    \/ \E h \in Hrefs : LinkActivate(h)

SpecClicks == Init /\ [][ClickNext]_vars

\* The offsets scrolled to while the menus are driven as well.
PageOffsets == {50, 150}

\* Both controllers under menu and scroll events together.
PageNext ==
    \/ ToggleClick
    \/ \E t \in ClickTargets : Click(t)
    \/ \E h \in Hrefs : LinkActivate(h)
    \/ \E w \in Widths : Resize(w)
    \/ ResizeLater
    \/ \E y \in PageOffsets : ScrollEvent(y)
    \/ CooldownExpire
    \/ OldCooldownExpire
    \/ NavDestroy

SpecPage == Init /\ [][PageNext]_vars

\* The application after its startup: lifecycle calls and window events.
LifeNext ==
    \/ AppReload
    \/ AppReloadLater
    \/ AppCleanupCall
    \/ AppInitCall
    \/ \E h \in BOOLEAN : VisibilityChange(h)
    \/ WindowFocus
    \/ WindowBlur
    \/ AddFloatingAnimation

SpecLife == Init /\ [][LifeNext]_vars

\* The animations controller alone: its callbacks and its destroy.
AnimInit ==
    /\ RateStart /\ NavStart /\ app = Started
    /\ anim \in {AnimStarted(aos) : aos \in BOOLEAN}

AnimNext ==
    \/ Intersect
    \/ IntersectSkill
    \/ Hover
    \/ \E k \in {"delay", "raf"} : DeferredRun(k)
    \/ \E k \in {"delay", "raf"} : StaleRun(k)
    \/ ParallaxScroll
    \/ ParallaxCooldownExpire
    \/ AnimDestroy

SpecAnim == AnimInit /\ [][AnimNext]_vars

\* The scripts of both pages start.
StartupNext ==
    \/ LoadNavigation
    \/ LoadAnimations
    \/ ConstructApp
    \/ OldConstructApp

StartupInit == RateStart /\ PageBefore

SpecStartup == StartupInit /\ [][StartupNext]_vars

\* ------------------------------------------------------------ claims
DebouncePending == \E t \in timers : t.kind = "later"

CeilDiv(a, b) == (a + b - 1) \div b

\* C1: a run of N >= 1 debounced calls, each less than `wait` ms after the
\* previous one, invokes func exactly once, with the last call's arguments:
\* nothing runs while the last schedule is pending, and once it has run func
\* has been invoked once and with the arguments of the last call.
C1_DebounceOnceWithLastArgs ==
    (dh.calls >= 1 /\ dh.allRapid) =>
        IF DebouncePending
        THEN dh.fires = 0
        ELSE dh.fires = 1 /\ dh.firedArg = dh.lastArg

C1_Witness ==
    /\ dh.calls >= 2 /\ dh.allRapid /\ ~DebouncePending
    /\ dh.fires = 1 /\ dh.prevArg # dh.lastArg /\ dh.firedArg = dh.lastArg

\* C2: calls spanning D ms invoke func at most ceil(D / limit) + 1 times, and
\* a call made while no cooldown is running invokes func within the call.
C2_ThrottleBound ==
    /\ th.invoked <= CeilDiv(th.lastCall - th.firstCall, Limit) + 1
    /\ (th.calls >= 1 /\ th.lastIdle) => th.lastRan

\* ------------------------------------------------- navigation claims
AllPresent == present = Elements
NewClosed == ~n.linksActive /\ ~n.toggleActive /\ ~n.overflowHidden
OldClosed == ~o.linksActive /\ ~o.toggleActive /\ ~o.overflowHidden

\* C3: from every reachable state, activating the toggle button flips the
\* menu panel of either controller: closed becomes open, open becomes closed.
C3_ToggleFlips ==
    (AllPresent /\ last.evt = "toggle") =>
        /\ n.linksActive = ~last.nOpen
        /\ o.linksActive = ~last.oOpen

\* C4: two consecutive toggle activations from the initial Closed state leave
\* either menu Closed: neither marker class, scroll suppression lifted.
C4_TwoTogglesClosed ==
    mon.toggleRun = 2 => NewClosed /\ OldClosed

C4_Witness ==
    AllPresent /\ mon.toggleRun = 2 /\ last.nOpen /\ last.oOpen /\ NewClosed /\ OldClosed

\* C5: with the menu Open on a page that holds the navbar, a click outside
\* the navbar and the toggle closes it, and a click inside the navbar on
\* neither the toggle nor a link leaves it Open.
C5_OutsideClickCloses ==
    (AllPresent /\ last.evt = "click") =>
        /\ (last.arg = "outside" /\ last.nOpen) => ~n.linksActive
        /\ (last.arg = "outside" /\ last.oOpen) => ~o.linksActive
        /\ (last.arg = "navbar" /\ last.nOpen) => n.linksActive
        /\ (last.arg = "navbar" /\ last.oOpen) => o.linksActive

C5_Witness ==
    /\ AllPresent /\ last.evt = "click" /\ last.arg = "outside"
    /\ last.nOpen /\ last.oOpen /\ ~n.linksActive /\ ~o.linksActive

\* C6: with the menu Open, activating a navigation link closes it, whatever
\* the link's href and whether or not the element it names exists.
C6_LinkCloses ==
    (AllPresent /\ last.evt = "link") =>
        /\ last.nOpen => ~n.linksActive
        /\ last.oOpen => ~o.linksActive

\* C7: with the menu Open and the window wider than 768 px, resize handling
\* (the debounced handler of the modular controller, the older application's
\* handler) leaves the menu Closed with both marker classes removed.
C7_ResizeCloses ==
    (AllPresent /\ win.w > 768) =>
        /\ (last.evt = "resizeLater" /\ last.nOpen) =>
               ~n.linksActive /\ ~n.toggleActive
        /\ (last.evt = "resize" /\ last.oOpen) =>
               ~o.linksActive /\ ~o.toggleActive

\* C8: in every reachable state, on either page, 'nav-links-active',
\* 'nav-toggle-active' and the body's scroll suppression are all on or all off.
C8_EffectsAgree ==
    AllPresent =>
        /\ n.linksActive = n.toggleActive /\ n.linksActive = n.overflowHidden
        /\ o.linksActive = o.toggleActive /\ o.linksActive = o.overflowHidden

\* C9: the handled offsets 0, 50, 120, 80, 150 leave 'navbar-scrolled' absent,
\* absent, present, absent, present; after every handled scroll event the
\* marker is present exactly when the offset is greater than 100.
C9_ScrollMarker ==
    Has("navbar") =>
        /\ \A i \in 1..Len(mon.nseq) : mon.nseq[i] = TestMarks[i]
        /\ \A i \in 1..Len(mon.oseq) : mon.oseq[i] = TestMarks[i]
        /\ (last.evt = "scroll" /\ last.nRan) => (n.navbarScrolled <=> win.y > 100)
        /\ (last.evt = "scroll" /\ last.oRan) => (o.navbarScrolled <=> win.y > 100)

C9_Witness ==
    /\ Has("navbar") /\ Len(mon.nseq) = Len(TestSeq) /\ Len(mon.oseq) = Len(TestSeq)
    /\ last.evt = "scroll" /\ last.nRan /\ last.oRan /\ win.y = 150
    /\ n.navbarScrolled /\ o.navbarScrolled

\* C10: after two destroy calls in a row nothing was raised, none of the
\* listeners the controller registered remains, and no later click reaches
\* its handlers.
C10_DestroyRemovesListeners ==
    mon.destroys >= 2 =>
        /\ last.evt = "destroy" => ~last.raised
        /\ listeners = {}
        /\ last.evt \in {"toggle", "click", "link"} => ~last.nRan

\* C11: after destroy on the modular controller isScrolled and
\* isMobileMenuOpen are false, 'navbar-scrolled', 'nav-links-active' and
\* 'nav-toggle-active' are absent and body scroll suppression is lifted; the
\* call does not raise, with or without the required elements, and the state
\* it leaves is one a further destroy does not change.
C11_DestroyRestores ==
    last.evt = "destroy" =>
        /\ ~last.raised
        /\ ~n.isScrolled /\ ~n.isMobileMenuOpen
        /\ ~n.navbarScrolled /\ NewClosed
        /\ DestroyState(n) = Ok(n)
        /\ DestroyListeners(listeners) = listeners

C11_Witness ==
    /\ last.evt = "destroy" /\ last.nOpen /\ win.y = 150
    /\ ~n.isScrolled /\ ~n.isMobileMenuOpen /\ ~n.navbarScrolled /\ NewClosed

\* C12: func runs only in a step at which at least `wait` ms have passed
\* since the most recent wrapper call, one invocation per step, and the step
\* leaves no schedule pending: a further invocation needs a further call.
C12_NoFireDuringBurst ==
    [][dh'.fires # dh.fires =>
          /\ now - dh.lastCall >= Wait
          /\ dh'.fires = dh.fires + 1
          /\ \A t \in timers' : t.kind # "later"]_vars

C12_Witness ==
    /\ dh.calls = 3 /\ dh.fires = 2 /\ ~DebouncePending /\ now - dh.lastCall >= Wait

InCooldownWindow == \E t \in timers : t.kind = "cooldown" /\ now < t.due

\* C13: a throttled call made strictly inside a cooldown window does not
\* invoke func, and func is invoked in no step other than a wrapper call: no
\* timer step ever runs it for a dropped call.
C13_DroppedInCooldown ==
    [][/\ (th'.calls # th.calls /\ InCooldownWindow) => th'.invoked = th.invoked
       /\ th'.calls = th.calls => th'.invoked = th.invoked]_vars

C13_Witness ==
    /\ th.calls >= 2 /\ th.invoked = 1 /\ ~th.lastRan /\ ~th.raised
    /\ ~inThrottle /\ timers = {} /\ now >= th.lastCall + Limit

\* C14: when the event loop runs due timers, a wrapper in cooldown always gets
\* out of it, and a wrapper call made outside a cooldown invokes func within
\* the call.
C14_CooldownEnds ==
    /\ inThrottle ~> ~inThrottle
    /\ [][(th'.calls # th.calls /\ ~inThrottle) => th'.invoked = th.invoked + 1]_vars

C14_Witness ==
    /\ th.invoked >= 2 /\ ~th.raised /\ th.lastRan /\ inThrottle
    /\ th.lastCall >= th.firstCall + Limit

\* C20: a debounced wrapper never has more than one schedule pending, and a
\* pending schedule is the one the most recent wrapper call made: a schedule
\* an earlier call made was cancelled and cannot run.
C20_OnePendingTimer ==
    /\ Cardinality({t \in timers : t.kind = "later"}) <= 1
    /\ \A t \in timers : t.kind = "later" => t.id = timeout /\ t.args = dh.lastArg

C20_Witness ==
    /\ dh.calls >= 2 /\ DebouncePending /\ dh.prevArg # dh.lastArg /\ dh.fires = 0
    /\ now > 0

\* C15: on a page that lacks .navbar, .nav-toggle or .nav-links the modular
\* controller's constructor and its scroll and click handlers raise nothing,
\* and the application still gets constructed.
C15_MissingElementNoRaise ==
    ~AllPresent => ~last.raised /\ ~app.propagated /\ app.constructed

StartupFailed == Constructed.raised \/ app.faults # {}

\* C16: no exception of the startup leaves the scripts uncaught; once startup
\* is over the application object exists, and where something failed (the
\* navigation or animations constructor, setupModules, bindGlobalEvents,
\* setupPerformanceMonitoring) it is left with isInitialized false and the
\* failure was logged by the catch block.
C16_StartupCaught ==
    /\ ~app.propagated /\ ~app.oldPropagated
    /\ app.phase # "aborted"
    /\ (app.phase = "constructed" /\ StartupFailed) =>
           app.constructed /\ ~app.isInitialized /\ app.logged
    /\ (app.oldPhase = "constructed"
           /\ app.faults \cap {"animations", "bindGlobalEvents"} # {}) =>
           app.oldLogged

NewMenu(s) == <<s.isMobileMenuOpen, s.linksActive, s.toggleActive, s.overflowHidden>>
OldMenu(s) == <<s.linksActive, s.toggleActive, s.overflowHidden>>

\* C17: a scroll event, a click inside the navbar on neither the toggle nor a
\* link, and resize handling at a width of at most 768 px leave the open flag,
\* both marker classes and the scroll lock of either page as they were; and a
\* toggle, link, outside-click or resize step that closes the modular
\* controller's panel leaves its isMobileMenuOpen false.
C17_MenuFrame ==
    [][AllPresent =>
          /\ (\/ last'.evt = "scroll"
              \/ last'.evt = "click" /\ last'.arg = "navbar"
              \/ last'.evt \in {"resize", "resizeLater"} /\ win'.w <= 768) =>
                 NewMenu(n') = NewMenu(n) /\ OldMenu(o') = OldMenu(o)
          /\ (/\ last'.evt \in {"toggle", "link", "click", "resize", "resizeLater"}
              /\ n.linksActive /\ ~n'.linksActive) =>
                 ~n'.isMobileMenuOpen]_vars

\* C18: on a page that holds the navigation elements, a click outside the
\* navbar and the toggle while the menu is Closed raises nothing and leaves
\* the controller's state, both marker classes and the body's scroll setting
\* as they were.
C18_OutsideClickClosedNoOp ==
    [][(AllPresent /\ last'.evt = "click" /\ last'.arg = "outside") =>
          /\ NewClosed => n' = n /\ ~last'.raised
          /\ OldClosed => o' = o]_vars

C18_Witness ==
    /\ AllPresent /\ last.evt = "click" /\ last.arg = "outside"
    /\ last.nRan /\ last.oRan /\ ~last.nOpen /\ ~last.oOpen
    /\ n.isMobileMenuOpen /\ NewClosed /\ OldClosed

\* C19: a handled scroll event whose offset lies on the side of the 100 px
\* threshold the previous handled one lay on changes no class of the navbar,
\* and in every state isScrolled is true exactly when the navbar carries
\* 'navbar-scrolled'.
C19_CrossingOnly ==
    /\ [](n.isScrolled <=> n.navbarScrolled)
    /\ [][/\ (last'.evt = "scroll" /\ last'.nRan /\ mon.nSide = Side(win'.y)) =>
              n'.navbarScrolled = n.navbarScrolled
          /\ (last'.evt = "scroll" /\ last'.oRan /\ mon.oSide = Side(win'.y)) =>
              o'.navbarScrolled = o.navbarScrolled]_vars

Cooldowns == {t \in timers : t.kind = "cooldown"}

\* C21: func is invoked only by a wrapper call made while the in-cooldown
\* flag is clear, and in every state at most one cooldown timer is pending:
\* one is pending exactly when the flag is set.
C21_OneCooldownTimer ==
    /\ [](Cardinality(Cooldowns) <= 1 /\ (inThrottle <=> Cooldowns # {}))
    /\ [][th'.invoked # th.invoked => (th'.calls # th.calls /\ ~inThrottle)]_vars

C21_Witness ==
    /\ inThrottle /\ Cardinality(Cooldowns) = 1
    /\ th.calls >= 2 /\ ~th.lastRan /\ th.invoked = 1

\* C30: a wrapper call in which func raised leaves the wrapper out of
\* cooldown with no timer scheduled, and the wrapper call after it invokes
\* func within the call.
C30_RaiseStartsNoCooldown ==
    /\ [](th.lastRaised => (th.lastRan /\ ~inThrottle /\ Cooldowns = {}))
    /\ [][(th.lastRaised /\ th'.calls # th.calls) =>
              (th'.invoked = th.invoked + 1 /\ th'.lastRan)]_vars

C30_Witness ==
    /\ th.calls >= 2 /\ th.invoked = 2 /\ th.raised /\ th.lastRan
    /\ th.lastCall = th.firstCall /\ ~th.lastRaised /\ inThrottle

\* C23: in every reachable state of the modular controller isMobileMenuOpen
\* is true exactly when the panel carries 'nav-links-active'.
C23_FlagMatchesPanel ==
    AllPresent => (n.isMobileMenuOpen <=> n.linksActive)

\* C24, as stated: once the scroll events have stopped and both cooldowns
\* have expired, 'navbar-scrolled' is present on either page exactly when the
\* final offset is greater than 100.
C24_MarkerReflectsFinal ==
    (Has("navbar") /\ last.evt = "scroll" /\ ~wr.inThrottle /\ ~wr.oldInThrottle) =>
        /\ n.navbarScrolled <=> win.y > 100
        /\ o.navbarScrolled <=> win.y > 100

\* C24, amended: the marker reflects the last scroll event that was handled.
\* After a handled event it is present exactly when that event's offset is
\* greater than 100, and an event that arrives during the cooldown is dropped
\* and leaves the marker as it was, also when it is the last of a burst.
C24_MarkerReflectsLastHandled ==
    /\ []((Has("navbar") /\ last.evt = "scroll") =>
             /\ last.nRan => (n.navbarScrolled <=> win.y > 100)
             /\ last.oRan => (o.navbarScrolled <=> win.y > 100))
    /\ [][/\ (last'.evt = "scroll" /\ ~last'.nRan) =>
                 n'.navbarScrolled = n.navbarScrolled
          /\ (last'.evt = "scroll" /\ ~last'.oRan) =>
                 o'.navbarScrolled = o.navbarScrolled]_vars

C24_Witness ==
    /\ Has("navbar") /\ last.evt = "scroll" /\ ~last.nRan /\ ~last.oRan
    /\ ~wr.inThrottle /\ ~wr.oldInThrottle /\ mon.destroys = 0
    /\ win.y = 50 /\ n.navbarScrolled /\ o.navbarScrolled

\* C27: after every step of a sequence of toggle, outside-click,
\* inside-navbar-click and link events from the initial state, the two
\* controllers' pages agree on 'nav-links-active' and on 'nav-toggle-active'.
C27_ControllersAgree ==
    AllPresent =>
        /\ n.linksActive = o.linksActive
        /\ n.toggleActive = o.toggleActive

\* C22: on a page without .nav-toggle the registration on the null element
\* adds no listener and stops nothing: bindEvents' other three listeners are
\* registered, and destroy, whose DOM.off meets the same null element, raises
\* nothing and still resets the controller's flags.
C22_ListenerFailureCaught ==
    ~Has("toggle") =>
        /\ \A l \in listeners : l.target # "null"
        /\ mon.destroys = 0 =>
              /\ Registered("window", "scroll", "handleScroll")
              /\ Registered("window", "resize", "handleResize")
              /\ Registered("document", "click", "handleOutsideClick")
        /\ last.evt = "destroy" =>
              ~last.raised /\ ~n.isScrolled /\ ~n.isMobileMenuOpen

C22_Witness ==
    /\ ~Has("toggle") /\ Has("navbar") /\ last.evt = "destroy" /\ ~last.raised
    /\ win.y = 150 /\ ~n.isScrolled /\ ~n.navbarScrolled

\* C25: after any sequence of init, reload and cleanup calls of the
\* application, each global event type has at most one handler of the
\* application registered.
C25_OneHandlerPerEvent == \A e \in GlobalEvents : app.handlers[e] <= 1

\* C26: once the timer of a reload has run, the application and both of its
\* modules report isInitialized true.
C26_ReloadRestoresModules ==
    app.lastOp = "reloadLater" =>
        /\ app.isInitialized
        /\ ModuleInitialized("Navigation")
        /\ ModuleInitialized("Animations")

\* C28: while the document stays hidden, an animated element that is paused
\* stays paused, whatever focus and blur events arrive.
C28_PausedWhileHidden ==
    [][(anim.hidden /\ anim'.hidden /\ anim.animated /\ anim'.animated
        /\ anim.playState = "paused") => anim'.playState = "paused"]_vars

\* C29: no callback scheduled before Animations.destroy sets a style on an
\* element after it.
C29_NoStyleAfterDestroy == ~anim.lateStyled

====
